---- MODULE Spec2Model ----
(***************************************************************************)
(* Model of aws_orchestrator: the Orchestrator's registry, agent           *)
(* selection, guarded execution (asyncio.wait_for around a tenacity retry  *)
(* loop) and batch fan-out/fan-in (asyncio.gather).                        *)
(*                                                                         *)
(* Time is discrete.  Every task carries the time elapsed since its        *)
(* process_task call started and the time left on the await it is          *)
(* suspended on (the agent invocation or the retry backoff sleep).  Timers *)
(* of the event loop are urgent: time advances only when no task has a     *)
(* due timer or a completed await left to handle.                          *)
(***************************************************************************)
EXTENDS Integers, Sequences, FiniteSets, TLC

\* ---------------------------------------------------------------- bounds
MaxBatch == 2
MaxTimeout == 9
MaxDur == 1
MaxAgents == 3
MaxPieces == 3

\* ------------------------------------------------------ program constants
MaxAttempts == 3
DefaultRetryAttempts == 3
DefaultMaxConcurrent == 10
WaitMultiplier == 1
WaitMin == 2
WaitMax == 10
ExpBase == 2
ZeroId == 0
DefaultTimeout == 30

None == "none"

AgentType == {"bedrock", "analytics", "notification", "custom"}

AgentStatus == {"idle", "running", "success", "failed", "timeout"}

\* Failures the agent invocation can report, and the two behaviours that are
\* not failures: it returns a payload ("ok") or it never returns ("hang").
ErrorKinds == {"TransientError", "PermanentError", "Timeout"}
Kinds == ErrorKinds \cup {"ok", "hang"}

\* Exception classes: all three failures derive from Exception; "Timeout"
\* is asyncio.TimeoutError; the cancellation wait_for injects is
\* CancelledError, a BaseException that is not an Exception.
\* SinkError is what a log call raises when the logger's sink fails (a
\* closed or broken stdout under structlog's PrintLogger): an Exception too.
SinkError == "SinkError"
IsException(kind) == kind \in ErrorKinds \cup {SinkError}
IsTimeoutError(kind) == kind = "Timeout"

VARIABLES
  agents,      \* Orchestrator.agents: insertion-ordered dict, as a sequence
  requests,    \* the argument of process_batch
  pc,          \* per task: "new", "invoking", "backoff", "done", "raised"
  agentOf,     \* per task: the agent select_agent returned (a record) or None
  attempt,     \* per task: tenacity's retry_state.attempt_number
  elapsed,     \* per task: time since start_time
  remaining,   \* per task: time left on the await the task is suspended on
  outcomes,    \* per task: how each attempt ended, <<kind, dur>>: what its
               \* invocation did, or the SinkError of a log call
  waits,       \* per task: the backoff sleeps tenacity asked for
  response,    \* per task: the TaskResponse process_task returned, or None
  finished,    \* task indices in the order their process_task completed
  batch,       \* "pending", the list process_batch returned, or "raised"
  trace,       \* per task: the steps _execute_agent_task took, <<step, attempt>>
  failing,     \* the log events on which the logger's sink raises
  config,      \* ComplianceEngine.config: the GuardrailConfig
  original,    \* the text the caller built the request (and payload) from
  query,       \* request.query of the caller's TaskRequest object
  returned,    \* the query of the request validate_request returned
  payload,     \* the response payload handed to filter_response
  filtered,    \* what filter_response returned
  detected,    \* what detect_pii returned
  masked,      \* what mask_pii returned
  remasked,    \* what mask_pii returned for its own result
  ops,         \* the ComplianceEngine methods called so far
  max_concurrent_tasks,  \* OrchestratorConfig.max_concurrent_tasks
  last_call,   \* the last call on the registry: register_agent,
               \* unregister_agent or health_check, with what it returned
  emitted      \* per task: the events its log calls have written

\* The state of the compliance engine and of the request it is given.
engine == <<config, original, query, returned, payload, filtered, detected,
            masked, remasked, ops>>

\* The state of the orchestrator.
orchestrator == <<agents, requests, pc, agentOf, attempt, elapsed, remaining,
                  outcomes, waits, response, finished, batch, trace, failing,
                  emitted>>

\* The orchestrator's configured limit and the calls on its registry.
service == <<max_concurrent_tasks, last_call>>

vars == <<agents, requests, pc, agentOf, attempt, elapsed, remaining,
          outcomes, waits, response, finished, batch, trace, failing,
          emitted, engine, service>>

\* GuardrailConfig: three flags, all true by default.
GuardrailConfig ==
  [enabled : BOOLEAN, pii_detection : BOOLEAN, audit_logging : BOOLEAN]

DefaultGuardrails ==
  [enabled |-> TRUE, pii_detection |-> TRUE, audit_logging |-> TRUE]

\* detect_pii's empty dict.
EmptyMapping == [kind \in {} |-> 0]

\* No method of the compliance engine has been called on any text.
NoEngineCall ==
  /\ returned = <<>>
  /\ filtered = <<>>
  /\ detected = EmptyMapping
  /\ masked = <<>>
  /\ remasked = <<>>
  /\ ops = {}

\* ------------------------------------------------------------- registry
\* "No agent": select_agent's None.  process_task reports it with the zero
\* UUID as agent id.
NoAgent ==
  [id |-> ZeroId, agent_type |-> None, enabled |-> FALSE, timeout |-> 0,
   retry_attempts |-> 0]

\* The smallest element of a non-empty set of indices.
First(idx) == CHOOSE k \in idx : \A m \in idx : k <= m

\* The largest element of a non-empty set of indices.
Last(idx) == CHOOSE k \in idx : \A m \in idx : k >= m

\* Mutant: the loop keeps the last match instead of returning the first.
get_agent_by_type_last(reg, agent_type) ==
  LET idx == {k \in 1..Len(reg) :
                reg[k].agent_type = agent_type /\ reg[k].enabled}
  IN  IF idx = {} THEN NoAgent ELSE reg[Last(idx)]

\* Orchestrator.get_agent_by_type: the first enabled agent of the type, in
\* the dict's iteration order.
get_agent_by_type(reg, agent_type) ==
  LET idx == {k \in 1..Len(reg) :
                reg[k].agent_type = agent_type /\ reg[k].enabled}
  IN  IF idx = {} THEN NoAgent ELSE reg[First(idx)]

\* Mutant: the fallback loop keeps the last enabled agent.
select_agent_last_enabled(reg, request) ==
  LET byPref == IF request.preferred_agent # None
                THEN get_agent_by_type(reg, request.preferred_agent)
                ELSE NoAgent
      idx == {k \in 1..Len(reg) : reg[k].enabled}
  IN  IF byPref # NoAgent THEN byPref
      ELSE IF idx = {} THEN NoAgent ELSE reg[Last(idx)]

\* Mutant: the fallback loop takes the first agent, enabled or not.
select_agent_ignoring_enabled(reg, request) ==
  LET byPref == IF request.preferred_agent # None
                THEN get_agent_by_type(reg, request.preferred_agent)
                ELSE NoAgent
  IN  IF byPref # NoAgent THEN byPref
      ELSE IF Len(reg) = 0 THEN NoAgent ELSE reg[1]

\* Orchestrator.select_agent: the preferred type when an enabled agent has it,
\* else the first enabled agent, else None.
select_agent(reg, request) ==
  LET byPref == IF request.preferred_agent # None
                THEN get_agent_by_type(reg, request.preferred_agent)
                ELSE NoAgent
      idx == {k \in 1..Len(reg) : reg[k].enabled}
  IN  IF byPref # NoAgent THEN byPref
      ELSE IF idx = {} THEN NoAgent ELSE reg[First(idx)]

\* ------------------------------------------------------------ retry policy
Min(a, b) == IF a < b THEN a ELSE b
Max(a, b) == IF a > b THEN a ELSE b

\* Mutant: the exponent counts from the base (exp_base ** attempt_number).
wait_exponential_from_base(attempt_number) ==
  LET exp == ExpBase ^ attempt_number
      result == WaitMultiplier * exp
  IN  Max(Max(0, WaitMin), Min(result, WaitMax))

\* tenacity.wait_exponential(multiplier=1, min=2, max=10), called with the
\* number of the attempt that has just failed.
wait_exponential(attempt_number) ==
  LET exp == ExpBase ^ (attempt_number - 1)
      result == WaitMultiplier * exp
  IN  Max(Max(0, WaitMin), Min(result, WaitMax))

\* Mutant: one attempt counter for all the tasks of a batch.
stop_after_attempt_shared(attempt_number) ==
  LET sum[k \in 0..Len(requests)] ==
        IF k = 0 THEN 0 ELSE sum[k - 1] + attempt[k]
  IN  sum[Len(requests)] >= MaxAttempts

\* Mutant: stops one attempt late.
stop_after_attempt_late(attempt_number) == attempt_number > MaxAttempts

\* tenacity.stop_after_attempt(3)
stop_after_attempt(attempt_number) == attempt_number >= MaxAttempts

\* Mutant: a retry predicate that gives up on PermanentError.
retry_unless_permanent(kind) == IsException(kind) /\ kind # "PermanentError"

\* tenacity's default retry predicate, retry_if_exception_type(Exception)
retry_if_exception_type(kind) == IsException(kind)

\* Mutant: re-raises the first attempt's exception.
reraise_first(outs) == <<outs[1][1], 1>>

\* The exception tenacity re-raises on exhaustion (reraise=True): the one of
\* the last attempt.  An exception is <<kind, number of the attempt>>.
reraise(outs) == <<outs[Len(outs)][1], Len(outs)>>

\* ---------------------------------------------------------- TaskResponse
TaskResponse(task_id, agent_id, status, result, error, execution_time) ==
  [task_id |-> task_id, agent_id |-> agent_id, status |-> status,
   result |-> result, error |-> error, execution_time |-> execution_time]

\* A task that has not returned has no response.
NoResponse == TaskResponse(0, ZeroId, None, <<>>, <<>>, 0)

\* A failure that leaves process_task instead of a response.
Propagated(req, exc) == TaskResponse(req.task_id, ZeroId, "raised", <<>>, exc, 0)

NoAgentError == <<"No suitable agent available">>

\* process_task when select_agent returned None.
on_no_agent(req, t) ==
  TaskResponse(req.task_id, ZeroId, "failed", <<>>, NoAgentError, t)

\* Mutant: a success reports the result as its error.
on_success_as_error(req, agent, result, t) ==
  TaskResponse(req.task_id, agent.id, "success", <<>>, result, t)

\* process_task's three exits around the guarded call.
on_success(req, agent, result, t) ==
  TaskResponse(req.task_id, agent.id, "success", result, <<>>, t)

\* Mutant: the timeout response keeps the status of a running task.
on_timeout_running(req, agent, t) ==
  TaskResponse(req.task_id, agent.id, "running", <<>>,
               <<"Task exceeded timeout of", agent.timeout>>, t)

on_timeout(req, agent, t) ==
  TaskResponse(req.task_id, agent.id, "timeout", <<>>,
               <<"Task exceeded timeout of", agent.timeout>>, t)

on_exception(req, agent, exc, t) ==
  TaskResponse(req.task_id, agent.id, "failed", <<>>, exc, t)

\* Mutant: process_task without its `except Exception` clause.
handle_failure_no_except(req, agent, exc, t) ==
  IF IsTimeoutError(exc[1]) THEN on_timeout(req, agent, t)
  ELSE Propagated(req, exc)

\* Mutant: `except Exception` placed before `except asyncio.TimeoutError`.
handle_failure_exception_first(req, agent, exc, t) ==
  IF IsException(exc[1]) THEN on_exception(req, agent, exc, t)
  ELSE IF IsTimeoutError(exc[1]) THEN on_timeout(req, agent, t)
  ELSE Propagated(req, exc)

\* The except clauses of process_task, in their order: asyncio.TimeoutError,
\* then Exception; anything else leaves process_task as a raised failure.
handle_failure(req, agent, exc, t) ==
  IF IsTimeoutError(exc[1]) THEN on_timeout(req, agent, t)
  ELSE IF IsException(exc[1]) THEN on_exception(req, agent, exc, t)
  ELSE Propagated(req, exc)

\* The payload _execute_agent_task builds from the invocation.
result_payload(agent) == <<"Processed by", agent.id>>

\* Mutant: the results in the order the tasks completed.
gather_as_completed(resp, fin, n) == [k \in 1..n |-> resp[fin[k]]]

\* asyncio.gather(*tasks): the results in the order of its arguments.
gather(resp, fin, n) == [i \in 1..n |-> resp[i]]

\* ---------------------------------------------------- compliance engine
\* Texts are sequences of characters.  The character classes of the four
\* patterns, over ASCII.
Lower ==
  {"a", "b", "c", "d", "e", "f", "g", "h", "i", "j", "k", "l", "m", "n",
   "o", "p", "q", "r", "s", "t", "u", "v", "w", "x", "y", "z"}

Upper ==
  {"A", "B", "C", "D", "E", "F", "G", "H", "I", "J", "K", "L", "M", "N",
   "O", "P", "Q", "R", "S", "T", "U", "V", "W", "X", "Y", "Z"}

Digit ==
  {"0", "1", "2", "3", "4", "5", "6", "7", "8", "9"}

\* \w, the characters between which \b sees no boundary.
Word == Lower \cup Upper \cup Digit \cup {"_"}

\* [A-Za-z0-9._%+-], [A-Za-z0-9.-] and [A-Z|a-z] of the email pattern.
LocalPart == Lower \cup Upper \cup Digit \cup {".", "_", "%", "+", "-"}
DomainPart == Lower \cup Upper \cup Digit \cup {".", "-"}
TopLevel == Upper \cup {"|"} \cup Lower

\* The items of a pattern: \b, a class repeated min..max times, and a class
\* repeated min or more times.
WordBoundary == [op |-> "b", set |-> {}, min |-> 0, max |-> 0]
Rep(set, min, max) == [op |-> "rep", set |-> set, min |-> min, max |-> max]
AtLeast(set, min) == [op |-> "many", set |-> set, min |-> min, max |-> 0]

\* The order in which the dict PII_PATTERNS is iterated.
PiiTypes == <<"email", "ssn", "phone", "credit_card">>

PII_PATTERNS(pii_type) ==
  CASE pii_type = "email" ->
         <<WordBoundary, AtLeast(LocalPart, 1), Rep({"@"}, 1, 1),
           AtLeast(DomainPart, 1), Rep({"."}, 1, 1), AtLeast(TopLevel, 2),
           WordBoundary>>
    [] pii_type = "ssn" ->
         <<WordBoundary, Rep(Digit, 3, 3), Rep({"-"}, 1, 1), Rep(Digit, 2, 2),
           Rep({"-"}, 1, 1), Rep(Digit, 4, 4), WordBoundary>>
    [] pii_type = "phone" ->
         <<WordBoundary, Rep(Digit, 3, 3), Rep({"-", "."}, 0, 1),
           Rep(Digit, 3, 3), Rep({"-", "."}, 0, 1), Rep(Digit, 4, 4),
           WordBoundary>>
    [] pii_type = "credit_card" ->
         <<WordBoundary, Rep(Digit, 4, 4), Rep({"-", " "}, 0, 1),
           Rep(Digit, 4, 4), Rep({"-", " "}, 0, 1), Rep(Digit, 4, 4),
           Rep({"-", " "}, 0, 1), Rep(Digit, 4, 4), WordBoundary>>

\* \b at position p: exactly one of the characters before and at p is a
\* word character.
boundary(text, p) ==
  (p > 1 /\ text[p - 1] \in Word) # (p <= Len(text) /\ text[p] \in Word)

\* The length of the longest run of at most `most` characters of `set` at p.
RECURSIVE run(_, _, _, _)
run(text, p, set, most) ==
  IF most = 0 \/ p > Len(text) \/ text[p] \notin set
  THEN 0
  ELSE 1 + run(text, p + 1, set, most - 1)

\* re's backtracking matcher: the position after the match of the items
\* k.. of the pattern at position p, or 0 when there is none.  A repetition
\* is greedy: it takes the longest run first and gives back one character
\* at a time.
RECURSIVE match(_, _, _, _), give_back(_, _, _, _, _)
match(text, p, pattern, k) ==
  IF k > Len(pattern)
  THEN p
  ELSE LET item == pattern[k]
       IN  IF item.op = "b"
           THEN (IF boundary(text, p) THEN match(text, p, pattern, k + 1)
                 ELSE 0)
           ELSE give_back(text, p, pattern, k,
                          run(text, p, item.set,
                              IF item.op = "many" THEN Len(text)
                              ELSE item.max))

give_back(text, p, pattern, k, n) ==
  IF n < pattern[k].min
  THEN 0
  ELSE LET end == match(text, p + n, pattern, k + 1)
       IN  IF end # 0 THEN end ELSE give_back(text, p, pattern, k, n - 1)

\* The position of the leftmost match of the pattern at or after p, or 0
\* when there is none.
next_match(text, pattern, p) ==
  LET starts == {q \in p..Len(text) : match(text, q, pattern, 1) > q}
  IN  IF starts = {} THEN 0
      ELSE CHOOSE q \in starts : \A r \in starts : q <= r

\* pattern.findall(text): the number of matches, found leftmost first and
\* not overlapping.
RECURSIVE findall(_, _, _)
findall(text, pattern, p) ==
  LET q == next_match(text, pattern, p)
  IN  IF q = 0 THEN 0
      ELSE 1 + findall(text, pattern, match(text, q, pattern, 1))

\* pattern.sub(repl, text).
RECURSIVE sub(_, _, _, _)
sub(text, pattern, repl, p) ==
  LET q == next_match(text, pattern, p)
  IN  IF q = 0 THEN SubSeq(text, p, Len(text))
      ELSE SubSeq(text, p, q - 1) \o repl \o
           sub(text, pattern, repl, match(text, q, pattern, 1))

\* pii_type.upper()
upper(pii_type) ==
  CASE pii_type = "email" -> <<"E", "M", "A", "I", "L">>
    [] pii_type = "ssn" -> <<"S", "S", "N">>
    [] pii_type = "phone" -> <<"P", "H", "O", "N", "E">>
    [] pii_type = "credit_card" ->
         <<"C", "R", "E", "D", "I", "T", "_", "C", "A", "R", "D">>

\* Mutant: the redaction token has no brackets.
redaction_token_bare(pii_type) ==
  upper(pii_type) \o <<"_", "R", "E", "D", "A", "C", "T", "E", "D">>

\* f"[{pii_type.upper()}_REDACTED]"
redaction_token(pii_type) ==
  <<"[">> \o upper(pii_type) \o
  <<"_", "R", "E", "D", "A", "C", "T", "E", "D">> \o <<"]">>

\* Mutant: detection ignores the pii_detection flag.
detect_pii_always(cfg, text) ==
  LET count(t) == findall(text, PII_PATTERNS(t), 1)
      found == {PiiTypes[k] :
                  k \in {j \in 1..Len(PiiTypes) : count(PiiTypes[j]) > 0}}
  IN  [t \in found |-> count(t)]

\* ComplianceEngine.detect_pii: the pattern types with a match, each with
\* its number of matches.
detect_pii(cfg, text) ==
  IF ~cfg.pii_detection
  THEN EmptyMapping
  ELSE LET count(t) == findall(text, PII_PATTERNS(t), 1)
           found == {PiiTypes[k] :
                       k \in {j \in 1..Len(PiiTypes) : count(PiiTypes[j]) > 0}}
       IN  [t \in found |-> count(t)]

\* The loop of mask_pii from the k-th pattern on.
RECURSIVE mask_from(_, _)
mask_from(text, k) ==
  IF k > Len(PiiTypes)
  THEN text
  ELSE mask_from(sub(text, PII_PATTERNS(PiiTypes[k]),
                     redaction_token(PiiTypes[k]), 1), k + 1)

\* Mutant: only the first pattern is substituted.
mask_pii_first_pattern(cfg, text) ==
  IF ~cfg.pii_detection
  THEN text
  ELSE sub(text, PII_PATTERNS(PiiTypes[1]), redaction_token(PiiTypes[1]), 1)

\* ComplianceEngine.mask_pii: each pattern in turn is substituted in the
\* result of the previous one.
mask_pii(cfg, text) ==
  IF ~cfg.pii_detection THEN text ELSE mask_from(text, 1)

\* Mutant: validate_request detects PII and leaves the query as it is.
validate_request_detect_only(cfg, request_query) ==
  IF ~cfg.enabled
  THEN request_query
  ELSE LET pii_found == detect_pii(cfg, request_query)
       IN  IF DOMAIN pii_found # {} /\ cfg.pii_detection
           THEN request_query
           ELSE request_query

\* Mutant: validate_request masks whether or not guardrails are enabled.
validate_request_always(cfg, request_query) ==
  IF DOMAIN detect_pii(cfg, request_query) # {} /\ cfg.pii_detection
  THEN mask_pii(cfg, request_query)
  ELSE request_query

\* ComplianceEngine.validate_request: the value of request.query when it
\* returns.
validate_request(cfg, request_query) ==
  IF ~cfg.enabled
  THEN request_query
  ELSE LET pii_found == detect_pii(cfg, request_query)
       IN  IF DOMAIN pii_found # {} /\ cfg.pii_detection
           THEN mask_pii(cfg, request_query)
           ELSE request_query

\* Mutant: the response is masked like the request.
filter_response_masking(cfg, resp) ==
  IF ~cfg.enabled THEN resp ELSE mask_pii(cfg, resp)

\* ComplianceEngine.filter_response: PII in str(response) is detected and
\* logged; the response itself is returned on every path.
filter_response(cfg, resp) ==
  IF ~cfg.enabled
  THEN resp
  ELSE LET pii_found == detect_pii(cfg, resp)
       IN  IF cfg.pii_detection /\ DOMAIN pii_found # {}
           THEN resp
           ELSE resp

\* ------------------------------------------------------------------ inputs
\* What one invocation of the agent does: <<kind, duration>>.
Outcomes ==
  {<<k, d>> : k \in Kinds \ {"hang"}, d \in 0..MaxDur} \cup {<<"hang", 0>>}

\* In a batch of several tasks an invocation fails at once, returns after
\* MaxDur or hangs.
BatchOutcomes ==
  {<<"TransientError", 0>>, <<"ok", MaxDur>>, <<"hang", 0>>}

OutcomesOf(n) == IF n = 1 THEN Outcomes ELSE BatchOutcomes

\* uuid4 task ids: distinct, and not the position in the batch.
TaskIdOf(i) == 100 + 7 * (MaxBatch + 1 - i)

Preferences == {None, "analytics"}

\* The registries with a bedrock and an analytics agent whose retry_attempts
\* are in `retries`.
RegistriesWith(retries) ==
  {<< [id |-> 1, agent_type |-> "bedrock", enabled |-> e1, timeout |-> t1,
       retry_attempts |-> r],
      [id |-> 2, agent_type |-> "analytics", enabled |-> e2, timeout |-> 1,
       retry_attempts |-> r] >> :
     <<e1, e2, t1, r>> \in BOOLEAN \X BOOLEAN \X (1..MaxTimeout) \X retries}

Registries == RegistriesWith({DefaultRetryAttempts})

Batches ==
  UNION {[1..n -> Preferences] : n \in 1..MaxBatch}

Tasks == 1..Len(requests)
InFlight(i) == pc[i] \in {"invoking", "backoff"}
Kind(i) == outcomes[i][Len(outcomes[i])][1]
Hung(i) == pc[i] = "invoking" /\ Kind(i) = "hang"
\* Mutant: the agent is looked up in the registry by its id whenever the
\* task uses it.
local_agent_by_lookup(reg, agent) ==
  IF \E k \in 1..Len(reg) : reg[k].id = agent.id
  THEN reg[CHOOSE k \in 1..Len(reg) : reg[k].id = agent.id]
  ELSE NoAgent

\* process_task's local variable `agent`: the object select_agent returned,
\* whatever has happened to the registry since.
local_agent(reg, agent) == agent

\* Mutant: the timer cancels an invocation but not a backoff sleep.
TimedOut_invoking_only(i) ==
  pc[i] = "invoking" /\ elapsed[i] >= agentOf[i].timeout

\* asyncio.wait_for(..., timeout=agent.timeout): the timer is due.
TimedOut(i) == elapsed[i] >= agentOf[i].timeout

\* The health report of a registry.
HealthCheck(status, agents_active, agents_total) ==
  [status |-> status, agents_active |-> agents_active,
   agents_total |-> agents_total]

\* A call on the registry: the method, the agent id it was given, whether the
\* id was in the registry, and the report when the method is health_check.
Call(op, id, present, report) ==
  [op |-> op, id |-> id, present |-> present, report |-> report]

NoCall == Call(None, ZeroId, FALSE, HealthCheck(None, 0, 0))

\* A batch, no task started, no call made on the compliance engine or on
\* the registry.
Constructed ==
  /\ \E prefs \in Batches :
       requests = [i \in 1..Len(prefs) |->
                     [task_id |-> TaskIdOf(i), preferred_agent |-> prefs[i]]]
  /\ pc = [i \in 1..MaxBatch |-> "new"]
  /\ agentOf = [i \in 1..MaxBatch |-> NoAgent]
  /\ attempt = [i \in 1..MaxBatch |-> 0]
  /\ elapsed = [i \in 1..MaxBatch |-> 0]
  /\ remaining = [i \in 1..MaxBatch |-> 0]
  /\ outcomes = [i \in 1..MaxBatch |-> <<>>]
  /\ waits = [i \in 1..MaxBatch |-> <<>>]
  /\ response = [i \in 1..MaxBatch |-> NoResponse]
  /\ finished = <<>>
  /\ batch = [state |-> "pending", responses |-> <<>>]
  /\ trace = [i \in 1..MaxBatch |-> <<>>]
  /\ emitted = [i \in 1..MaxBatch |-> {}]
  /\ NoEngineCall
  /\ last_call = NoCall

\* The compliance engine has the default configuration and the requests'
\* query texts are left out.
NoQuery ==
  /\ config = DefaultGuardrails
  /\ original = <<>> /\ query = <<>> /\ payload = <<>>

\* OrchestratorConfig's default limit.
DefaultLimit == max_concurrent_tasks = DefaultMaxConcurrent

\* Agents with the default retry_attempts, the default limit, and a logger
\* whose sink works.
Init ==
  /\ agents \in Registries
  /\ Constructed /\ NoQuery /\ DefaultLimit
  /\ failing = {}

\* process_task leaves with `r`: a response, or a propagated failure.
Leave(i, r) ==
  /\ pc' = [pc EXCEPT ![i] = IF r.status = "raised" THEN "raised" ELSE "done"]
  /\ response' = [response EXCEPT ![i] = r]
  /\ remaining' = [remaining EXCEPT ![i] = 0]
  /\ finished' = Append(finished, i)

\* Mutant: the entries run one after the other.
may_start_serial(i) == \A j \in 1..(i - 1) : pc[j] \in {"done", "raised"}

\* asyncio.gather wraps each process_task coroutine in a task; the loop's
\* ready queue starts them in the order of the batch, each running to its
\* first suspension, without waiting for an earlier one to finish.
may_start(i) == \A j \in 1..(i - 1) : pc[j] # "new"

Ready(i) == pc[i] = "new" /\ may_start(i)

\* A log call returns normally unless the sink fails on that event.
emits(event) == event \notin failing

\* The event select_agent logs on the path it takes.
select_event(reg, request) ==
  IF /\ request.preferred_agent # None
     /\ get_agent_by_type(reg, request.preferred_agent) # NoAgent
  THEN "agent_selected_by_preference"
  ELSE IF \E k \in 1..Len(reg) : reg[k].enabled
  THEN "agent_selected_default"
  ELSE "no_agent_available"

\* The events an attempt logs before the invocation (validate_request logs
\* under audit_logging) and those it logs after the invocation returned.
entry_events(cfg) ==
  {"task_execution_started"} \cup
  (IF cfg.enabled /\ cfg.audit_logging THEN {"request_validated"} ELSE {})

exit_events(cfg) ==
  {"task_execution_completed"} \cup
  (IF cfg.enabled /\ cfg.audit_logging THEN {"response_filtered"} ELSE {})

\* The log calls of an attempt in their order: before the invocation, and
\* after the invocation returned.
entry_log(cfg) ==
  <<"task_execution_started">> \o
  (IF cfg.enabled /\ cfg.audit_logging THEN <<"request_validated">>
   ELSE <<>>)

exit_log(cfg) ==
  (IF cfg.enabled /\ cfg.audit_logging THEN <<"response_filtered">>
   ELSE <<>>) \o
  <<"task_execution_completed">>

\* The event the except clauses of _execute_agent_task log for a failure.
except_log(kind) ==
  IF IsTimeoutError(kind) THEN <<"task_execution_timeout">>
  ELSE <<"task_execution_failed">>

\* The events a run of log calls writes: those before the first call that
\* raises.
written(log) ==
  {log[k] : k \in {n \in 1..Len(log) : \A j \in 1..n : emits(log[j])}}

\* Mutant: the agent is invoked before the request is validated.
attempt_begin_invoke_first(n) == << <<"invoke", n>>, <<"validate_request", n>> >>

\* The steps of attempt n up to its suspension: validate_request has
\* returned, then the invocation is awaited.
attempt_begin(n) == << <<"validate_request", n>>, <<"invoke", n>> >>

\* The step of attempt n after the invocation returned a payload.
attempt_end(n) == << <<"filter_response", n>> >>

\* Attempt n of task i runs to its first suspension: validate_request
\* rewrites the request's query in place and the invocation is given the
\* request it returned.  A log call that raises ends the attempt before the
\* query is masked and the agent invoked.
BeginAttempt(i, n, before) ==
  /\ IF \A e \in entry_events(config) : emits(e)
     THEN /\ \E o \in OutcomesOf(Len(requests)) :
               /\ outcomes' = [outcomes EXCEPT ![i] = Append(@, o)]
               /\ remaining' = [remaining EXCEPT ![i] = o[2]]
          /\ trace' = [trace EXCEPT ![i] = @ \o attempt_begin(n)]
          /\ query' = validate_request(config, query)
          /\ returned' = query'
          /\ ops' = ops \cup {"validate_request"}
     ELSE /\ outcomes' = [outcomes EXCEPT ![i] = Append(@, <<SinkError, 0>>)]
          /\ remaining' = [remaining EXCEPT ![i] = 0]
          /\ UNCHANGED <<trace, query, returned, ops>>
  /\ attempt' = [attempt EXCEPT ![i] = n]
  /\ pc' = [pc EXCEPT ![i] = "invoking"]
  /\ emitted' = [emitted EXCEPT
                   ![i] = @ \cup written(before \o entry_log(config))]

\* process_task up to its first suspension: select_agent, then wait_for
\* starts _execute_agent_task, whose first attempt validates the request and
\* awaits the invocation.  gather's tasks start in the order of the batch.
\* select_agent's log call is outside any try block.
StartTask(i) ==
  /\ batch.state = "pending"
  /\ emits("batch_processing_started")
  /\ Ready(i)
  /\ LET agent == select_agent(agents, requests[i])
     IN  IF ~emits(select_event(agents, requests[i]))
         THEN /\ Leave(i, Propagated(requests[i], <<SinkError, 0>>))
              /\ UNCHANGED <<agentOf, attempt, outcomes, trace>>
              /\ UNCHANGED <<query, returned, ops, emitted>>
         ELSE IF agent = NoAgent
         THEN /\ Leave(i, on_no_agent(requests[i], elapsed[i]))
              /\ emitted' = [emitted EXCEPT ![i] = @ \cup {"no_agent_available"}]
              /\ UNCHANGED <<agentOf, attempt, outcomes, trace>>
              /\ UNCHANGED <<query, returned, ops>>
         ELSE /\ BeginAttempt(i, 1, <<select_event(agents, requests[i])>>)
              /\ agentOf' = [agentOf EXCEPT ![i] = agent]
              /\ UNCHANGED <<response, finished>>
  /\ UNCHANGED <<agents, requests, elapsed, waits, batch, failing, service>>
  /\ UNCHANGED <<config, original, payload, filtered, detected, masked,
                 remasked>>

\* The invocation returns a payload, which carries the query the
\* invocation was given: filter_response, and process_task returns the
\* success response.  A log call that raises after the invocation makes the
\* attempt end with that failure instead.
InvokeReturn(i) ==
  /\ pc[i] = "invoking" /\ Kind(i) = "ok"
  /\ remaining[i] = 0 /\ ~TimedOut(i)
  /\ payload' = query
  /\ IF \A e \in exit_events(config) : emits(e)
     THEN /\ Leave(i, on_success(requests[i], local_agent(agents, agentOf[i]),
                                 result_payload(agentOf[i]), elapsed[i]))
          /\ filtered' = filter_response(config, payload')
          /\ ops' = ops \cup {"filter_response"}
          /\ UNCHANGED outcomes
     ELSE /\ outcomes' = [outcomes EXCEPT
                            ![i][Len(outcomes[i])] = <<SinkError, 0>>]
          /\ UNCHANGED <<pc, response, remaining, finished, filtered, ops>>
  /\ trace' = [trace EXCEPT ![i] = @ \o attempt_end(attempt[i])]
  /\ emitted' = [emitted EXCEPT ![i] = @ \cup written(exit_log(config))]
  /\ UNCHANGED <<agents, requests, agentOf, attempt, elapsed, waits, batch,
                 failing, service>>
  /\ UNCHANGED <<config, original, query, returned, detected, masked,
                 remasked>>

\* What leaves the except clauses of _execute_agent_task: they log and
\* re-raise, and a log call that raises replaces the failure.
except_clause(kind) ==
  IF IsTimeoutError(kind)
  THEN (IF emits("task_execution_timeout") THEN kind ELSE SinkError)
  ELSE (IF emits("task_execution_failed") THEN kind ELSE SinkError)

\* The attempt fails: the except clauses of _execute_agent_task log and
\* re-raise, and tenacity's iter() decides: not retryable or attempts
\* exhausted, the failure reaches process_task; else sleep.
InvokeFail(i) ==
  /\ pc[i] = "invoking" /\ IsException(Kind(i))
  /\ remaining[i] = 0 /\ ~TimedOut(i)
  /\ LET kind == except_clause(Kind(i))
         outs == [outcomes[i] EXCEPT ![Len(outcomes[i])] = <<kind, @[2]>>]
     IN  /\ outcomes' = [outcomes EXCEPT ![i] = outs]
         /\ IF ~retry_if_exception_type(kind)
            THEN /\ Leave(i, handle_failure(requests[i],
                                   local_agent(agents, agentOf[i]),
                                   <<kind, attempt[i]>>, elapsed[i]))
                 /\ UNCHANGED waits
            ELSE IF stop_after_attempt(attempt[i])
            THEN /\ Leave(i, handle_failure(requests[i],
                                   local_agent(agents, agentOf[i]),
                                   reraise(outs), elapsed[i]))
                 /\ UNCHANGED waits
            ELSE /\ pc' = [pc EXCEPT ![i] = "backoff"]
                 /\ remaining' = [remaining EXCEPT
                                    ![i] = wait_exponential(attempt[i])]
                 /\ waits' = [waits EXCEPT
                                ![i] = Append(@, wait_exponential(attempt[i]))]
                 /\ UNCHANGED <<response, finished>>
  /\ emitted' = [emitted EXCEPT ![i] = @ \cup written(except_log(Kind(i)))]
  /\ UNCHANGED <<agents, requests, agentOf, attempt, elapsed, batch, trace,
                 failing, engine, service>>

\* The backoff sleep is over: tenacity starts the next attempt.
NextAttempt(i) ==
  /\ pc[i] = "backoff"
  /\ remaining[i] = 0 /\ ~TimedOut(i)
  /\ BeginAttempt(i, attempt[i] + 1, <<>>)
  /\ UNCHANGED <<agents, requests, agentOf, elapsed, waits, response,
                 finished, batch, failing, service>>
  /\ UNCHANGED <<config, original, payload, filtered, detected, masked,
                 remasked>>

\* Mutant: the timeout of one task cancels the whole batch.
cancelled_by_all(i) == 1..MaxBatch

\* The tasks asyncio.wait_for's timer cancels when it fires for task i.
cancelled_by(i) == {i}

\* wait_for's timer fires: the awaited _execute_agent_task is cancelled at
\* whatever it is suspended on (the invocation or the backoff sleep);
\* CancelledError is no Exception, so neither the except clauses nor
\* tenacity keep it, and wait_for raises TimeoutError into process_task.
TimeoutFires(i) ==
  /\ InFlight(i) /\ TimedOut(i)
  /\ LET r == handle_failure(requests[i], local_agent(agents, agentOf[i]),
                             <<"Timeout", 0>>, elapsed[i])
         gone == cancelled_by(i) \cap {j \in Tasks : InFlight(j)}
     IN  /\ pc' = [j \in 1..MaxBatch |->
                     IF j \in gone
                     THEN (IF r.status = "raised" THEN "raised" ELSE "done")
                     ELSE pc[j]]
         /\ response' = [j \in 1..MaxBatch |->
                     IF j = i THEN r
                     ELSE IF j \in gone
                     THEN on_exception(requests[j], agentOf[j],
                                       <<"CancelledError", attempt[j]>>,
                                       elapsed[j])
                     ELSE response[j]]
         /\ remaining' = [j \in 1..MaxBatch |->
                     IF j \in gone THEN 0 ELSE remaining[j]]
         /\ finished' = Append(finished, i)
  /\ UNCHANGED <<agents, requests, agentOf, attempt, elapsed, outcomes,
                 waits, batch, trace, failing, emitted, engine, service>>

\* Time passes: only when no task is ready to run and no task has a due timer
\* or a completed await to handle.
CanWait(i) ==
  /\ ~TimedOut(i)
  /\ remaining[i] > 0 \/ Hung(i)

Tick ==
  /\ \A i \in Tasks : ~Ready(i)
  /\ \E i \in Tasks : InFlight(i)
  /\ \A i \in Tasks : InFlight(i) => CanWait(i)
  /\ elapsed' = [i \in 1..MaxBatch |->
                   IF i \in Tasks /\ InFlight(i) THEN elapsed[i] + 1
                   ELSE elapsed[i]]
  /\ remaining' = [i \in 1..MaxBatch |->
                   IF remaining[i] > 0 THEN remaining[i] - 1 ELSE 0]
  /\ UNCHANGED <<agents, requests, pc, agentOf, attempt, outcomes, waits,
                 response, finished, batch, trace, failing, emitted, engine, service>>

\* process_batch returns: gather has every result (or, with
\* return_exceptions=False, the first failure a task raised).  Its two log
\* calls, before the tasks are created and after gather, are unguarded.
BatchReturn ==
  /\ batch.state = "pending"
  /\ \/ ~emits("batch_processing_started")
     \/ \E i \in Tasks : pc[i] = "raised"
     \/ \A i \in Tasks : pc[i] = "done"
  /\ batch' = IF \/ ~emits("batch_processing_started")
                 \/ \E i \in Tasks : pc[i] = "raised"
                 \/ ~emits("batch_processing_completed")
              THEN [state |-> "raised", responses |-> <<>>]
              ELSE [state |-> "returned",
                    responses |-> gather(response, finished, Len(requests))]
  /\ UNCHANGED <<agents, requests, pc, agentOf, attempt, elapsed, remaining,
                 outcomes, waits, response, finished, trace, failing, emitted, engine, service>>

Next ==
  \/ \E i \in Tasks : StartTask(i)
  \/ \E i \in Tasks : InvokeReturn(i)
  \/ \E i \in Tasks : InvokeFail(i)
  \/ \E i \in Tasks : NextAttempt(i)
  \/ \E i \in Tasks : TimeoutFires(i)
  \/ Tick
  \/ BatchReturn

Spec == Init /\ [][Next]_vars

\* ------------------------------------------------------- registry changes
\* A variant of register_agent that keeps the entry an id already has.
register_agent_keep_first(reg, agent) ==
  IF \E k \in 1..Len(reg) : reg[k].id = agent.id
  THEN reg
  ELSE Append(reg, agent)

\* A variant of register_agent that moves a replaced id to the end.
register_agent_move_to_end(reg, agent) ==
  LET Keep(a) == a.id # agent.id
  IN  Append(SelectSeq(reg, Keep), agent)

\* Orchestrator.register_agent: self.agents[agent.id] = agent.  A dict keeps
\* the position of a key that is already present and appends a new key.
register_agent(reg, agent) ==
  IF \E k \in 1..Len(reg) : reg[k].id = agent.id
  THEN [k \in 1..Len(reg) |-> IF reg[k].id = agent.id THEN agent ELSE reg[k]]
  ELSE Append(reg, agent)

\* A variant of unregister_agent that pops the oldest entry instead.
unregister_agent_oldest(reg, agent_id) ==
  IF \E k \in 1..Len(reg) : reg[k].id = agent_id
  THEN Tail(reg)
  ELSE reg

\* Orchestrator.unregister_agent: pops the id when it is present.
unregister_agent(reg, agent_id) ==
  LET Keep(a) == a.id # agent_id
  IN  IF \E k \in 1..Len(reg) : reg[k].id = agent_id
      THEN SelectSeq(reg, Keep)
      ELSE reg

\* The agent descriptors callers register.
RegTypes == {"bedrock", "analytics"}

Descriptors ==
  [id : 1..MaxAgents, agent_type : RegTypes, enabled : BOOLEAN,
   timeout : {DefaultTimeout}, retry_attempts : {DefaultRetryAttempts}]

\* No batch is running.
NoBatch ==
  /\ requests = <<>>
  /\ pc = [i \in 1..MaxBatch |-> "new"]
  /\ agentOf = [i \in 1..MaxBatch |-> NoAgent]
  /\ attempt = [i \in 1..MaxBatch |-> 0]
  /\ elapsed = [i \in 1..MaxBatch |-> 0]
  /\ remaining = [i \in 1..MaxBatch |-> 0]
  /\ outcomes = [i \in 1..MaxBatch |-> <<>>]
  /\ waits = [i \in 1..MaxBatch |-> <<>>]
  /\ response = [i \in 1..MaxBatch |-> NoResponse]
  /\ finished = <<>>
  /\ batch = [state |-> "pending", responses |-> <<>>]
  /\ trace = [i \in 1..MaxBatch |-> <<>>]
  /\ emitted = [i \in 1..MaxBatch |-> {}]
  /\ failing = {}

\* No batch is running and the compliance engine has been given no text.
Idle ==
  /\ NoBatch
  /\ NoQuery
  /\ NoEngineCall
  /\ DefaultLimit
  /\ last_call = NoCall

\* An orchestrator built from a config without agents.
RegInit == agents = <<>> /\ Idle

\* agent_id in self.agents
registered(reg, agent_id) == \E k \in 1..Len(reg) : reg[k].id = agent_id

\* A variant of active_agents that counts the disabled entries too.
RECURSIVE active_agents_all(_, _)
active_agents_all(reg, k) ==
  IF k = 0 THEN 0 ELSE active_agents_all(reg, k - 1) + 1

\* The number of entries of reg[1..k] that are enabled.
RECURSIVE active_agents(_, _)
active_agents(reg, k) ==
  IF k = 0 THEN 0
  ELSE active_agents(reg, k - 1) + (IF reg[k].enabled THEN 1 ELSE 0)

\* Orchestrator.health_check, its uptime and version left out.
health_check(reg) ==
  LET active == active_agents(reg, Len(reg))
  IN  HealthCheck(IF active > 0 THEN "healthy" ELSE "degraded",
                  active, Len(reg))

Register(a) ==
  /\ agents' = register_agent(agents, a)
  /\ last_call' = Call("register_agent", a.id, registered(agents, a.id),
                       NoCall.report)
  /\ UNCHANGED <<requests, pc, agentOf, attempt, elapsed, remaining,
                 outcomes, waits, response, finished, batch, trace, failing,
                 emitted, engine, max_concurrent_tasks>>

Unregister(id) ==
  /\ agents' = unregister_agent(agents, id)
  /\ last_call' = Call("unregister_agent", id, registered(agents, id),
                       NoCall.report)
  /\ UNCHANGED <<requests, pc, agentOf, attempt, elapsed, remaining,
                 outcomes, waits, response, finished, batch, trace, failing,
                 emitted, engine, max_concurrent_tasks>>

CheckHealth ==
  /\ last_call' = Call("health_check", ZeroId, FALSE, health_check(agents))
  /\ UNCHANGED <<agents, requests, pc, agentOf, attempt, elapsed, remaining,
                 outcomes, waits, response, finished, batch, trace, failing,
                 emitted, engine, max_concurrent_tasks>>

RegNext ==
  \/ \E a \in Descriptors : Register(a)
  \/ \E id \in 1..MaxAgents : Unregister(id)
  \/ CheckHealth

RegSpec == RegInit /\ [][RegNext]_vars

\* The events the orchestrator and the compliance engine log while a batch
\* is processed.
LogEvents ==
  {"batch_processing_started", "batch_processing_completed",
   "agent_selected_by_preference", "agent_selected_default",
   "no_agent_available", "task_execution_started", "request_validated",
   "response_filtered", "task_execution_completed",
   "task_execution_timeout", "task_execution_failed"}

\* One process_task call with a logger whose sink works or raises on one
\* event.
EmitInit ==
  /\ agents \in Registries
  /\ Constructed /\ NoQuery /\ DefaultLimit
  /\ Len(requests) = 1
  /\ failing \in {{}} \cup {{e} : e \in LogEvents}

EmitSpec == EmitInit /\ [][Next]_vars

\* ---------------------------------------------- compliance engine calls
\* The texts the engine is given: up to MaxPieces pieces, each a match of
\* one of the patterns or a single character that joins, separates or
\* extends matches, and the query of the documented scenario.
Pieces ==
  {<<"a", "@", "b", ".", "c", "o">>,
   <<"1", "2", "3", "-", "4", "5", "-", "6", "7", "8", "9">>,
   <<"5", "5", "5", "-", "1", "2", "3", "-", "4", "5", "6", "7">>,
   <<"4", "1", "1", "1", " ", "1", "1", "1", "1", " ", "1", "1", "1", "1",
     " ", "1", "1", "1", "1">>,
   <<" ">>, <<"9">>, <<"-">>}

RECURSIVE Concat(_)
Concat(ps) == IF ps = <<>> THEN <<>> ELSE Head(ps) \o Concat(Tail(ps))

ScenarioQuery ==
  <<"C", "o", "n", "t", "a", "c", "t", " ", "m", "e", " ", "a", "t", " ",
    "j", "o", "h", "n", ".", "d", "o", "e", "@", "e", "x", "a", "m", "p",
    "l", "e", ".", "c", "o", "m", " ", "o", "r", " ", "c", "a", "l", "l",
    " ", "5", "5", "5", "-", "1", "2", "3", "-", "4", "5", "6", "7">>

Texts ==
  {Concat(ps) : ps \in UNION {[1..n -> Pieces] : n \in 1..MaxPieces}}
    \cup {ScenarioQuery}

\* A compliance engine of any configuration and a request (and a payload)
\* built from one text; the orchestrator is idle.
CompInit ==
  /\ agents = <<>> /\ NoBatch
  /\ DefaultLimit /\ last_call = NoCall
  /\ config \in GuardrailConfig
  /\ original \in Texts
  /\ query = original /\ payload = original
  /\ NoEngineCall

\* The engine's methods are called one after the other, each once; none
\* reads what another returned.
CallOrder == <<"detect_pii", "filter_response", "mask_pii", "validate_request">>

due(method) ==
  Cardinality(ops) < Len(CallOrder) /\ CallOrder[Cardinality(ops) + 1] = method

\* detect_pii(text)
Detect ==
  /\ due("detect_pii")
  /\ detected' = detect_pii(config, original)
  /\ ops' = ops \cup {"detect_pii"}
  /\ UNCHANGED <<config, original, query, returned, payload, filtered,
                 masked, remasked>>
  /\ UNCHANGED <<orchestrator, service>>

\* mask_pii(text), and mask_pii of its result.
Mask ==
  /\ due("mask_pii")
  /\ masked' = mask_pii(config, original)
  /\ remasked' = mask_pii(config, masked')
  /\ ops' = ops \cup {"mask_pii"}
  /\ UNCHANGED <<config, original, query, returned, payload, filtered,
                 detected>>
  /\ UNCHANGED <<orchestrator, service>>

\* validate_request(request): request.query is assigned in place and the
\* same object is returned.
Validate ==
  /\ due("validate_request")
  /\ query' = validate_request(config, query)
  /\ returned' = query'
  /\ ops' = ops \cup {"validate_request"}
  /\ UNCHANGED <<config, original, payload, filtered, detected, masked,
                 remasked>>
  /\ UNCHANGED <<orchestrator, service>>

\* filter_response(response)
Filter ==
  /\ due("filter_response")
  /\ filtered' = filter_response(config, payload)
  /\ ops' = ops \cup {"filter_response"}
  /\ UNCHANGED <<config, original, query, returned, payload, detected,
                 masked, remasked>>
  /\ UNCHANGED <<orchestrator, service>>

CompNext ==
  \/ Detect
  \/ Mask
  \/ Validate
  \/ Filter

CompSpec == CompInit /\ [][CompNext]_vars

\* A single process_task call: a batch of one request.
InitSingle == Init /\ Len(requests) = 1

\* One process_task call under an event loop that keeps running whatever is
\* ready or due.
FairSpec == InitSingle /\ [][Next]_vars /\ WF_vars(Next)

\* The values a config gives the limits that the defaults leave open: one
\* task at a time or the default, no retry or the default.
ConcurrencyLimits == {1, DefaultMaxConcurrent}
RetryLimits == {0, DefaultRetryAttempts}

\* An orchestrator built from a config that sets max_concurrent_tasks and
\* its agents' retry_attempts.
ConfiguredInit ==
  /\ agents \in RegistriesWith(RetryLimits)
  /\ max_concurrent_tasks \in ConcurrencyLimits
  /\ Constructed /\ NoQuery
  /\ failing = {}

ConfiguredSpec == ConfiguredInit /\ [][Next]_vars

\* ------------------------------------------------- one task with a query
\* The queries callers send: each piece alone and the documented scenario.
QueryTexts == Pieces \cup {ScenarioQuery}

\* Two agents, both enabled or both disabled; the default agent has the
\* longest timeout, so a task can go through all its attempts.
QueryRegistries ==
  {reg \in Registries :
     reg[1].enabled = reg[2].enabled /\ reg[1].timeout = MaxTimeout}

\* One process_task call on a request with a query text, under a compliance
\* engine of any configuration.
QueryInit ==
  /\ agents \in QueryRegistries
  /\ Constructed /\ DefaultLimit
  /\ Len(requests) = 1
  /\ config \in GuardrailConfig
  /\ original \in QueryTexts
  /\ query = original /\ payload = <<>>
  /\ failing = {}

QuerySpec == QueryInit /\ [][Next]_vars

\* ------------------------------------------- queries of the longest size
\* TaskRequest.query: Field(..., min_length=1, max_length=10000).
QueryMinLength == 1
QueryMaxLength == 10000

\* n spaces.
Filler(n) == [k \in 1..n |-> " "]

\* The queries TaskRequest accepts that are as long or as short as it allows:
\* an email address or a space alone, and each at the end of a text of the
\* greatest length.
LengthTexts ==
  LET ends == {<<"a", "@", "b", ".", "c", "o">>, <<" ">>}
  IN  {t \in ends \cup {Filler(QueryMaxLength - Len(e)) \o e : e \in ends} :
         Len(t) \in QueryMinLength..QueryMaxLength}

\* Two enabled agents, the default one with the longest timeout.
LengthRegistries == {reg \in QueryRegistries : reg[1].enabled}

\* One process_task call on a request whose query TaskRequest validated,
\* under a compliance engine that masks PII or not.
LengthInit ==
  /\ agents \in LengthRegistries
  /\ Constructed /\ DefaultLimit
  /\ Len(requests) = 1
  /\ config \in {g \in GuardrailConfig : g.enabled /\ g.audit_logging}
  /\ original \in LengthTexts
  /\ query = original /\ payload = <<>>
  /\ failing = {}

LengthSpec == LengthInit /\ [][Next]_vars

\* ------------------------------------- registry changes during a task
\* The agents registered while a task is in flight: a replacement for an id
\* or a new id.
ChurnDescriptors ==
  [id : 1..MaxAgents, agent_type : {"analytics"}, enabled : {TRUE},
   timeout : {1}, retry_attempts : {DefaultRetryAttempts}]

\* Registries whose default agent leaves time for one retry after the
\* first backoff.
ChurnRegistries ==
  {reg \in Registries :
     reg[1].enabled /\ reg[2].enabled /\ reg[1].timeout = WaitMin + 1}

ChurnInit ==
  /\ agents \in ChurnRegistries
  /\ Constructed /\ NoQuery /\ DefaultLimit
  /\ Len(requests) = 1
  /\ failing = {}

\* Another coroutine of the event loop registers or unregisters an agent
\* while the task is suspended.
RegisterDuring(a) == (\E i \in Tasks : InFlight(i)) /\ Register(a)
UnregisterDuring(id) == (\E i \in Tasks : InFlight(i)) /\ Unregister(id)

ChurnNext ==
  \/ Next
  \/ \E a \in ChurnDescriptors : RegisterDuring(a)
  \/ \E id \in 1..MaxAgents : UnregisterDuring(id)

ChurnSpec == ChurnInit /\ [][ChurnNext]_vars

\* ------------------------------------------------------ building agents
\* str.startswith
startswith(v, prefix) ==
  /\ Len(v) >= Len(prefix)
  /\ SubSeq(v, 1, Len(prefix)) = prefix

LambdaArnPrefix ==
  <<"a", "r", "n", ":", "a", "w", "s", ":", "l", "a", "m", "b", "d", "a",
    ":">>
HttpPrefix == <<"h", "t", "t", "p">>

\* Agent.validate_endpoint: TRUE when it returns v, FALSE when it raises.
validate_endpoint(v) ==
  startswith(v, LambdaArnPrefix) \/ startswith(v, HttpPrefix)

\* The bounds of Agent.timeout.
TimeoutGe == 1
TimeoutLe == 900

\* Agent(**fields): TRUE when pydantic builds the agent, FALSE when it raises
\* ValidationError; the fields' constraints and the endpoint's validator.
Agent(fields) ==
  /\ Len(fields.endpoint) >= 1
  /\ validate_endpoint(fields.endpoint)
  /\ fields.timeout >= TimeoutGe /\ fields.timeout <= TimeoutLe

\* The endpoints callers give: Lambda ARNs, http and https URLs, and texts
\* that are neither; among them the endpoint of the unit test.
Endpoints ==
  {<<"a", "r", "n", ":", "a", "w", "s", ":", "l", "a", "m", "b", "d", "a",
     ":", "r", ":", "1", ":", "f", "u", "n", "c", "t", "i", "o", "n", ":",
     "f">>,
   <<"h", "t", "t", "p", ":", "/", "/", "h">>,
   <<"h", "t", "t", "p", "s", ":", "/", "/", "h">>,
   <<"h", "t", "t", "p", "f", "o", "o">>,
   <<"h", "t", "t", "p">>,
   <<"f", "t", "p", ":", "/", "/", "h">>,
   <<"a", "r", "n", ":", "a", "w", "s", ":", "s", "3", ":", ":", ":", "b">>,
   <<"i", "n", "v", "a", "l", "i", "d", "-", "e", "n", "d", "p", "o", "i",
     "n", "t">>}

\* The timeouts callers give: at and next to the bounds.
Timeouts == {TimeoutGe - 1, TimeoutGe, TimeoutLe, TimeoutLe + 1}

\* The fields callers give the Agent constructor.
AgentFields ==
  [id : 1..MaxAgents, agent_type : {"bedrock"}, enabled : {TRUE},
   timeout : Timeouts, retry_attempts : {DefaultRetryAttempts},
   endpoint : Endpoints]

\* A caller builds an agent and registers it.
BuildAndRegister(fields) ==
  /\ Agent(fields)
  /\ Register(fields)

\* A caller's Agent(...) raises ValidationError: nothing to register.
BuildFails(fields) ==
  /\ ~ Agent(fields)
  /\ last_call' = Call("Agent", fields.id, registered(agents, fields.id),
                       NoCall.report)
  /\ UNCHANGED <<agents, requests, pc, agentOf, attempt, elapsed, remaining,
                 outcomes, waits, response, finished, batch, trace, failing,
                 emitted, engine, max_concurrent_tasks>>

BuildNext ==
  \/ \E fields \in AgentFields : BuildAndRegister(fields)
  \/ \E fields \in AgentFields : BuildFails(fields)
  \/ \E id \in 1..MaxAgents : Unregister(id)

BuildSpec == RegInit /\ [][BuildNext]_vars

\* ------------------------------------------------------------------ claims
Timeout(i) == agentOf[i].timeout
Done(i) == pc[i] = "done"

\* C1: whatever the invocation does (returns, fails with any error on any
\* attempt, never returns), process_task ends with a TaskResponse for its
\* request and never with a propagated failure, and neither does
\* process_batch.
C1_NeverPropagates ==
  /\ batch.state # "raised"
  /\ \A i \in Tasks :
       /\ pc[i] # "raised"
       /\ Done(i) => /\ response[i].status \in {"success", "failed", "timeout"}
                     /\ response[i].task_id = requests[i].task_id

C1_Witness ==
  /\ batch.state = "returned"
  /\ \E i \in Tasks :
       /\ Done(i) /\ response[i].status = "failed"
       /\ Len(outcomes[i]) = MaxAttempts
       /\ outcomes[i][1][1] = "PermanentError"
       /\ outcomes[i][2][1] = "Timeout"
       /\ outcomes[i][3][1] = "TransientError"

\* C2: process_batch returns one response per request, the i-th being that
\* of the i-th request, whatever order the tasks completed in.
C2_BatchOrder ==
  batch.state = "returned" =>
    /\ Len(batch.responses) = Len(requests)
    /\ \A i \in Tasks : batch.responses[i].task_id = requests[i].task_id

C2_Witness ==
  /\ batch.state = "returned"
  /\ Len(requests) = 2
  /\ finished = <<2, 1>>
  /\ batch.responses[1].status = "timeout"
  /\ batch.responses[2].status = "failed"

\* C3: an invocation that never returns leads to a response with status
\* timeout, returned no later than the agent's timeout after the start.
C3_HangTimesOut ==
  \A i \in 1..MaxBatch :
    Hung(i) ~> (/\ Done(i)
                /\ response[i].status = "timeout"
                /\ response[i].execution_time <= Timeout(i))

C3_Witness ==
  \E i \in Tasks :
    /\ Done(i) /\ response[i].status = "timeout"
    /\ outcomes[i][Len(outcomes[i])][1] = "hang"
    /\ Len(outcomes[i]) = 2

\* C4: the agent's timeout bounds the whole guarded call: a task is never in
\* flight (invoking or in a backoff wait) later than the timeout after its
\* start, and once the timeout has elapsed no time passes with the task in
\* flight and no further attempt is started.
C4_TimeoutBoundsGuardedCall ==
  [][\A i \in 1..MaxBatch :
       /\ InFlight(i)' => elapsed'[i] <= agentOf'[i].timeout
       /\ attempt'[i] # attempt[i] => elapsed[i] < agentOf'[i].timeout
       /\ (InFlight(i) /\ elapsed[i] >= Timeout(i)) =>
            /\ elapsed' = elapsed
            /\ attempt'[i] = attempt[i]
            /\ pc'[i] \in {pc[i], "done"}]_vars

C4_Witness ==
  \E i \in Tasks :
    /\ Done(i) /\ response[i].status = "timeout"
    /\ Len(waits[i]) = 2 /\ attempt[i] = 2
    /\ response[i].execution_time = Timeout(i)

\* C5: the invocation is attempted at most 3 times in one process_task call.
C5_AtMostThreeAttempts ==
  \A i \in Tasks : attempt[i] <= 3 /\ Len(outcomes[i]) <= 3

C5_Witness ==
  \E i \in Tasks :
    /\ Done(i) /\ attempt[i] = 3 /\ response[i].status = "failed"
    /\ response[i].execution_time < Timeout(i)

\* C6 as stated: the wait before the 2nd attempt is 2 and the wait before the
\* 3rd attempt is 4.
C6_Original ==
  \A i \in Tasks :
    /\ Len(waits[i]) >= 1 => waits[i][1] = 2
    /\ Len(waits[i]) >= 2 => waits[i][2] = 4

\* C6, amended: every backoff wait lies between 2 and 10; the wait before the
\* 2nd attempt is 2 and the wait before the 3rd attempt is 2 as well (the
\* exponential 2^(k-1) is raised to the minimum of 2), and there is no third
\* wait.
C6_BackoffWaits ==
  \A i \in Tasks :
    /\ Len(waits[i]) <= 2
    /\ \A k \in 1..Len(waits[i]) : waits[i][k] >= 2 /\ waits[i][k] <= 10
    /\ Len(waits[i]) >= 1 => waits[i][1] = 2
    /\ Len(waits[i]) >= 2 => waits[i][2] = 2

C6_Witness ==
  \E i \in Tasks : Len(waits[i]) = 2 /\ attempt[i] = 3

C8_ExhaustedReportsLast ==
  \A i \in Tasks :
    (/\ Done(i)
     /\ Len(outcomes[i]) = 3
     /\ \A k \in 1..3 :
          outcomes[i][k][1] \in {"TransientError", "PermanentError"}
     /\ response[i].execution_time < Timeout(i)) =>
       /\ response[i].status = "failed"
       /\ response[i].error = <<outcomes[i][3][1], 3>>

C8_Witness ==
  \E i \in Tasks :
    /\ Done(i) /\ Len(outcomes[i]) = 3
    /\ outcomes[i][1][1] = "PermanentError"
    /\ outcomes[i][2][1] = "PermanentError"
    /\ outcomes[i][3][1] = "TransientError"
    /\ response[i].execution_time < Timeout(i)
    /\ response[i].status = "failed"

\* What process_task returns for request `req` on its own, given what each
\* invocation of the agent does: attempt k starts at time t.
RECURSIVE AloneFrom(_, _, _, _, _)
AloneFrom(req, agent, outs, k, t) ==
  IF k > Len(outs) THEN NoResponse
  ELSE LET kind == outs[k][1]
           end == t + outs[k][2]
           wait == 2
       IN  IF kind = "hang" \/ end >= agent.timeout
           THEN on_timeout(req, agent, agent.timeout)
           ELSE IF kind = "ok"
           THEN on_success(req, agent, result_payload(agent), end)
           ELSE IF k = 3
           THEN (IF kind = "Timeout" THEN on_timeout(req, agent, end)
                 ELSE on_exception(req, agent, <<kind, k>>, end))
           ELSE IF end + wait >= agent.timeout
           THEN on_timeout(req, agent, agent.timeout)
           ELSE AloneFrom(req, agent, outs, k + 1, end + wait)

Alone(i) ==
  LET agent == select_agent(agents, requests[i])
  IN  IF agent = NoAgent THEN on_no_agent(requests[i], 0)
      ELSE AloneFrom(requests[i], agent, outcomes[i], 1, 0)

\* C9: in a batch, a task's timeout or failure touches no sibling: every
\* task's response is the one it would get processed alone.
C9_SiblingsUnaffected ==
  Len(requests) >= 2 =>
    \A i \in Tasks : Done(i) => response[i] = Alone(i)

C9_Witness ==
  /\ Len(requests) = 2
  /\ Done(1) /\ response[1].status = "timeout"
  /\ Done(2) /\ response[2].status = "success"
  /\ response[2].execution_time > response[1].execution_time
  /\ Len(outcomes[2]) = 3

\* C10: the entries of a batch run concurrently: no entry waits for an
\* earlier one, so every entry has started before any time has passed for
\* another.
C10_Concurrent ==
  \A i, j \in Tasks : pc[j] = "new" => elapsed[i] = 0

C10_Witness ==
  /\ Len(requests) = 2
  /\ pc[1] = "invoking" /\ pc[2] = "invoking"
  /\ elapsed[1] > 0 /\ elapsed[2] > 0

\* Every request a caller can build, as far as selection reads it.
AnyRequest ==
  [task_id : {TaskIdOf(1)}, preferred_agent : AgentType \cup {None}]

NoneEnabled(reg) == \A k \in 1..Len(reg) : ~reg[k].enabled

\* C11: with no enabled agent in the registry, select_agent returns none for
\* every request, and process_task returns status failed with the error
\* "No suitable agent available", the zero agent id and the request's task id.
C11_NoAgentAvailable ==
  NoneEnabled(agents) =>
    /\ \A req \in AnyRequest : select_agent(agents, req) = NoAgent
    /\ \A i \in Tasks :
         /\ pc[i] \in {"new", "done"}
         /\ Done(i) =>
              /\ response[i].status = "failed"
              /\ response[i].error = <<"No suitable agent available">>
              /\ response[i].agent_id = 0
              /\ response[i].task_id = requests[i].task_id
              /\ response[i].execution_time >= 0

C11_Witness ==
  /\ NoneEnabled(agents)
  /\ Len(requests) = 2
  /\ Done(1) /\ Done(2)
  /\ requests[2].preferred_agent = "analytics"
  /\ batch.state = "returned"

EnabledOfType(reg, t) ==
  {k \in 1..Len(reg) : reg[k].agent_type = t /\ reg[k].enabled}

EnabledIn(reg) == {k \in 1..Len(reg) : reg[k].enabled}

\* C12: when the request prefers a type and an enabled agent of that type is
\* registered, select_agent returns the enabled agent of that type that comes
\* first in registration order, whatever else is registered around it.
C12_PreferenceWins ==
  \A req \in AnyRequest :
    LET idx == EnabledOfType(agents, req.preferred_agent)
    IN  (req.preferred_agent # None /\ idx # {}) =>
          \E k \in idx :
            /\ select_agent(agents, req) = agents[k]
            /\ \A m \in idx : k <= m

C12_Witness ==
  /\ Len(agents) = 3
  /\ agents[1].agent_type = "bedrock" /\ agents[1].enabled
  /\ agents[2].agent_type = "analytics" /\ ~agents[2].enabled
  /\ agents[3].agent_type = "analytics" /\ agents[3].enabled
  /\ select_agent(agents, [task_id |-> TaskIdOf(1),
                           preferred_agent |-> "analytics"]) = agents[3]

\* C13: without a preferred type, or with none enabled of the preferred type,
\* select_agent returns the first enabled agent in iteration order; it
\* returns none exactly when no agent is enabled and never a disabled agent.
C13_FallbackFirstEnabled ==
  \A req \in AnyRequest :
    LET r == select_agent(agents, req)
        en == EnabledIn(agents)
    IN  /\ r = NoAgent <=> en = {}
        /\ r # NoAgent => \E k \in en : r = agents[k]
        /\ (/\ en # {}
            /\ \/ req.preferred_agent = None
               \/ EnabledOfType(agents, req.preferred_agent) = {}) =>
             \E k \in en : r = agents[k] /\ \A m \in en : k <= m

C13_Witness ==
  /\ Len(agents) = 3
  /\ ~agents[1].enabled /\ agents[1].agent_type = "analytics"
  /\ agents[2].enabled /\ agents[2].agent_type = "bedrock"
  /\ agents[3].enabled /\ agents[3].agent_type = "bedrock"
  /\ select_agent(agents, [task_id |-> TaskIdOf(1),
                           preferred_agent |-> "analytics"]) = agents[2]
  /\ select_agent(agents, [task_id |-> TaskIdOf(1),
                           preferred_agent |-> None]) = agents[2]

\* C14: in every attempt of a process_task call the three steps are strictly
\* sequential: the agent is invoked only right after validate_request of that
\* attempt has returned, filter_response runs only right after that attempt's
\* invocation returned a result, and an attempt starts only after the
\* previous attempt's invocation.
C14_ValidateInvokeFilter ==
  \A i \in Tasks : \A k \in 1..Len(trace[i]) :
    LET step == trace[i][k]
        n == step[2]
    IN  /\ step[1] = "validate_request" =>
             IF k = 1 THEN n = 1 ELSE trace[i][k - 1] = <<"invoke", n - 1>>
        /\ step[1] = "invoke" =>
             k > 1 /\ trace[i][k - 1] = <<"validate_request", n>>
        /\ step[1] = "filter_response" =>
             /\ k > 1 /\ trace[i][k - 1] = <<"invoke", n>>
             /\ outcomes[i][n][1] = "ok"
             /\ k = Len(trace[i])

\* A task whose first attempt failed and whose second attempt returned a
\* result: validate, invoke, validate, invoke, filter.
C14_Witness ==
  \E i \in Tasks :
    /\ Done(i) /\ response[i].status = "success"
    /\ trace[i] = attempt_begin(1) \o attempt_begin(2) \o attempt_end(2)

\* The methods called so far include `method`.
Called(method) == method \in ops

\* The text has a match of some pattern, as the detect_pii call reported.
PiiDetected == DOMAIN detected # {}

\* The number of matches the four patterns have in the text.
RawMatches(text) ==
  [k \in 1..Len(PiiTypes) |-> findall(text, PII_PATTERNS(PiiTypes[k]), 1)]

NoRawMatch(text) == \A k \in 1..Len(PiiTypes) : RawMatches(text)[k] = 0

\* The text contains the redaction token of the type.
HasToken(text, pii_type) ==
  LET token == redaction_token(pii_type)
  IN  \E p \in 1..(Len(text) - Len(token) + 1) :
        SubSeq(text, p, p + Len(token) - 1) = token

\* C15: with guardrails and pii_detection enabled, validate_request on a
\* request whose query has PII assigns mask_pii(query) to the query in place:
\* the returned request and the caller's request carry the same masked query,
\* which has a redaction token and no match of any pattern left; the query
\* of the documented scenario ends with the email and the phone token.
C15_ValidateMasksInPlace ==
  (/\ config.enabled /\ config.pii_detection
   /\ Called("validate_request") /\ PiiDetected)
  => /\ returned = query
     /\ query = masked
     /\ query # original
     /\ \E k \in 1..Len(PiiTypes) : HasToken(query, PiiTypes[k])
     /\ NoRawMatch(query)
     /\ original = ScenarioQuery =>
          HasToken(query, "email") /\ HasToken(query, "phone")

\* The documented scenario: the query with an email address and a phone
\* number has been validated and is no longer the original.
C15_Witness ==
  /\ config.enabled /\ config.pii_detection
  /\ Called("validate_request")
  /\ original = ScenarioQuery
  /\ detected = [t \in {"email", "phone"} |-> 1]
  /\ returned # original

C17_DisabledValidateUnchanged ==
  (~config.enabled /\ Called("validate_request"))
  => query = original /\ returned = original

\* Guardrails disabled, pii_detection set, PII in the query: validated.
C17_Witness ==
  /\ ~config.enabled /\ config.pii_detection /\ PiiDetected
  /\ Called("validate_request")
  /\ masked # original /\ returned = original

\* C18: mask_pii of a masked text is that masked text, and with detection
\* on no pattern has a match in a masked text.
C18_MaskIdempotent ==
  Called("mask_pii")
  => /\ remasked = masked
     /\ config.pii_detection => NoRawMatch(masked)

\* A text that mask_pii changed, masked again.
C18_Witness ==
  /\ Called("mask_pii")
  /\ masked # original
  /\ \E k \in 1..Len(PiiTypes) : HasToken(masked, PiiTypes[k])
  /\ remasked = masked

\* C19: with pii_detection disabled, detect_pii returns the empty mapping
\* and mask_pii returns its input, for every text.
C19_DetectionDisabled ==
  ~config.pii_detection
  => /\ Called("detect_pii") => DOMAIN detected = {}
     /\ Called("mask_pii") => masked = original /\ remasked = original

\* Detection disabled and both methods called on a text with an email
\* address and a phone number.
C19_Witness ==
  /\ ~config.pii_detection
  /\ Called("detect_pii") /\ Called("mask_pii")
  /\ original = ScenarioQuery
  /\ ~NoRawMatch(original)
  /\ masked = original

\* C20: a log call that raises never changes the outcome of a task: no
\* failure leaves process_task or process_batch, and no attempt ends with
\* the failure of a log call, so the response is the one the invocations
\* alone determine.
C20_EmissionNeverAffects ==
  /\ batch.state # "raised"
  /\ \A i \in Tasks :
       /\ pc[i] # "raised"
       /\ \A k \in 1..Len(outcomes[i]) : outcomes[i][k][1] # SinkError

\* C21: every response process_task returns has status success, failed or
\* timeout; success comes with the result payload (the one filter_response
\* was given and returned) and no error, failed and timeout come with an
\* error and no result.
C21_ResponseShape ==
  \A i \in Tasks :
    Done(i) =>
      /\ response[i].status \in {"success", "failed", "timeout"}
      /\ response[i].status = "success" =>
           /\ response[i].result = result_payload(agentOf[i])
           /\ response[i].result # <<>>
           /\ response[i].error = <<>>
      /\ response[i].status \in {"failed", "timeout"} =>
           response[i].error # <<>> /\ response[i].result = <<>>

\* A batch in which one task succeeded and another timed out.
C21_Witness ==
  \E i, j \in Tasks :
    /\ Done(i) /\ response[i].status = "success"
    /\ Done(j) /\ response[j].status = "timeout"

\* The registry's entry for an id, NoAgent when it has none.
EntryOf(reg, id) ==
  IF \E k \in 1..Len(reg) : reg[k].id = id
  THEN reg[CHOOSE k \in 1..Len(reg) : reg[k].id = id]
  ELSE NoAgent

\* C22: register_agent(a) makes the registry map a.id to a and leaves every
\* other entry as it was; the registry grows by exactly one entry when a.id
\* was absent and keeps its size when it was present; no two entries of the
\* registry ever have the same id.
C22_RegisterInsertsOrOverwrites ==
  /\ [](\A j, k \in 1..Len(agents) : agents[j].id = agents[k].id => j = k)
  /\ [][\A a \in {d \in Descriptors : d.id = last_call'.id} :
          Register(a) =>
            /\ EntryOf(agents', a.id) = a
            /\ \A id \in (1..MaxAgents) \ {a.id} :
                 EntryOf(agents', id) = EntryOf(agents, id)
            /\ Len(agents') =
                 Len(agents) + (IF registered(agents, a.id) THEN 0 ELSE 1)]_vars
C22_Witness ==
  /\ last_call.op = "register_agent" /\ last_call.present
  /\ Len(agents) = MaxAgents
  /\ ~ EntryOf(agents, last_call.id).enabled

\* C23: unregister_agent(id) removes the entry with that id when there is
\* one and leaves every other entry as it was; when there is none the
\* registry is unchanged, and the call returns either way.
C23_UnregisterRemovesIfPresent ==
  [][\A id \in 1..MaxAgents :
       Unregister(id) =>
         /\ ~ registered(agents', id)
         /\ \A other \in (1..MaxAgents) \ {id} :
              EntryOf(agents', other) = EntryOf(agents, other)
         /\ Len(agents') =
              Len(agents) - (IF registered(agents, id) THEN 1 ELSE 0)
         /\ ~ registered(agents, id) => agents' = agents]_vars
C23_Witness ==
  /\ last_call.op = "unregister_agent" /\ last_call.present
  /\ Len(agents) = MaxAgents - 1
  /\ ~ registered(agents, last_call.id)

\* C24: a health_check made after any registrations and unregistrations
\* reports as agents_total the number of entries of the registry, as
\* agents_active the number of its enabled entries, which is at most
\* agents_total, and the status healthy exactly when agents_active is
\* positive, degraded otherwise.
C24_HealthCheckCounts ==
  last_call.op = "health_check" =>
    LET report == last_call.report
    IN  /\ report.agents_total = Len(agents)
        /\ report.agents_active =
             Cardinality({k \in 1..Len(agents) : agents[k].enabled})
        /\ report.agents_active <= report.agents_total
        /\ report.status = "healthy" <=> report.agents_active > 0
        /\ report.status \in {"healthy", "degraded"}
C24_Witness ==
  /\ last_call.op = "health_check"
  /\ last_call.report = HealthCheck("healthy", 1, 2)
  /\ Len(agents) = 2

\* C25: while process_batch runs, the number of process_task calls in flight
\* never exceeds the configured max_concurrent_tasks.
C25_InFlightWithinLimit ==
  Cardinality({i \in Tasks : InFlight(i)}) <= max_concurrent_tasks

\* C26: a task invokes an agent with retry_attempts = r at most r + 1 times.
C26_RetryAttemptsBound ==
  \A i \in Tasks :
    agentOf[i] # NoAgent => attempt[i] <= agentOf[i].retry_attempts + 1

\* C27: every registered agent has an endpoint that is a Lambda ARN or an
\* http or https URL, and a timeout in 1..900, since constructing an Agent
\* from anything else fails.
C27_RegisteredWellFormed ==
  \A k \in 1..Len(agents) :
    /\ \/ startswith(agents[k].endpoint, LambdaArnPrefix)
       \/ startswith(agents[k].endpoint, HttpPrefix \o <<":", "/", "/">>)
       \/ startswith(agents[k].endpoint, HttpPrefix \o <<"s", ":", "/", "/">>)
    /\ agents[k].timeout \in TimeoutGe..TimeoutLe

\* C28: a response of process_task has status timeout exactly when the
\* guarded call ran for the agent's timeout; a failure the invocation
\* reports before that, whatever its kind, gives another status.
C28_TimeoutIffExceeded ==
  \A i \in Tasks :
    Done(i) /\ agentOf[i] # NoAgent =>
      (response[i].status = "timeout" <=>
         response[i].execution_time >= Timeout(i))

C30_InvocationGetsMaskedQuery ==
  \A i \in Tasks :
    pc[i] = "invoking" /\ config.enabled /\ config.pii_detection =>
      /\ returned = mask_pii(config, original)
      /\ query = returned
      /\ NoRawMatch(returned)
C30_Witness ==
  \E i \in Tasks :
    /\ pc[i] = "invoking" /\ attempt[i] = MaxAttempts
    /\ config.enabled /\ config.pii_detection
    /\ original = ScenarioQuery
    /\ returned # original
    /\ HasToken(returned, "email") /\ HasToken(returned, "phone")

\* C31: the agent of a task is selected once: from its selection on the
\* task keeps that agent through every attempt, and the response carries
\* that agent's id, whatever is registered or unregistered while the task
\* is in flight.
C31_AgentSelectedOnce ==
  /\ [](\A i \in Tasks :
          Done(i) /\ agentOf[i] # NoAgent =>
            response[i].agent_id = agentOf[i].id)
  /\ [][\A i \in Tasks :
          agentOf[i] # NoAgent => agentOf'[i] = agentOf[i]]_vars
C31_Witness ==
  \E i \in Tasks :
    /\ Done(i) /\ response[i].status = "success" /\ attempt[i] >= 2
    /\ response[i].agent_id = agentOf[i].id
    /\ ~ registered(agents, agentOf[i].id)
    /\ last_call.op = "unregister_agent"

\* C32: whenever process_task returns status timeout for a task, the task's
\* log calls have written a task_execution_timeout event before.
C32_TimeoutEventEmitted ==
  \A i \in Tasks :
    Done(i) /\ response[i].status = "timeout" =>
      "task_execution_timeout" \in emitted[i]

\* C33: when an attempt of a task failed and a later attempt, the 2nd or
\* the 3rd, returns a result before the agent's timeout has elapsed, the
\* response has status success with that attempt's result and no error of
\* the earlier attempts.
C33_LaterAttemptSucceeds ==
  \A i \in Tasks :
    (/\ Done(i)
     /\ Len(outcomes[i]) >= 2
     /\ Kind(i) = "ok"
     /\ \A k \in 1..(Len(outcomes[i]) - 1) : IsException(outcomes[i][k][1])
     /\ response[i].execution_time < Timeout(i)) =>
       /\ response[i].status = "success"
       /\ response[i].result = result_payload(agentOf[i])
       /\ response[i].error = <<>>
       /\ trace[i][Len(trace[i])] = <<"filter_response", Len(outcomes[i])>>
C33_Witness ==
  \E i \in Tasks :
    /\ Done(i) /\ response[i].status = "success"
    /\ Len(outcomes[i]) = MaxAttempts
    /\ outcomes[i][1][1] = "TransientError"
    /\ outcomes[i][2][1] = "Timeout"
    /\ response[i].error = <<>>

\* C34: when the registry has no enabled agent, so that none is selected,
\* process_task validates nothing, invokes no agent and retries nothing,
\* and it leaves the request's query and the registry as they were.
C34_NoAgentNoEffect ==
  /\ [](NoneEnabled(agents) =>
          \A i \in Tasks :
            /\ trace[i] = <<>> /\ outcomes[i] = <<>> /\ waits[i] = <<>>
            /\ attempt[i] = 0 /\ agentOf[i] = NoAgent
            /\ query = original /\ returned = <<>>
            /\ ops = {})
  /\ [][NoneEnabled(agents) => agents' = agents]_vars
C34_Witness ==
  \E i \in Tasks :
    /\ NoneEnabled(agents)
    /\ Done(i) /\ response[i].status = "failed"
    /\ original = ScenarioQuery /\ query = original
    /\ config.enabled /\ config.pii_detection

\* The ids of a registry in its iteration order.
IdsOf(reg) == [k \in 1..Len(reg) |-> reg[k].id]

\* C35: the registry iterates in the order in which the ids it holds were
\* inserted: registering under an id that is present replaces the entry at
\* its position, registering under an absent id (a new one, or one that was
\* unregistered before) puts it last, unregistering keeps the order of the
\* others; lookup by type and selection return the first entry in this
\* order that qualifies.
C35_InsertionOrder ==
  /\ [][last_call'.op = "register_agent" =>
          IF registered(agents, last_call'.id)
          THEN /\ IdsOf(agents') = IdsOf(agents)
               /\ \A k \in 1..Len(agents) :
                    agents[k].id # last_call'.id => agents'[k] = agents[k]
          ELSE /\ SubSeq(agents', 1, Len(agents)) = agents
               /\ Len(agents') = Len(agents) + 1
               /\ agents'[Len(agents')].id = last_call'.id]_vars
  /\ [][last_call'.op = "unregister_agent" =>
          \A j, k \in 1..Len(agents') :
            j < k =>
              \E m, n \in 1..Len(agents) :
                m < n /\ agents[m] = agents'[j] /\ agents[n] = agents'[k]]_vars
  /\ [](\A t \in RegTypes :
          \A k \in 1..Len(agents) :
            /\ (k \in EnabledOfType(agents, t)
                /\ \A j \in 1..(k - 1) : j \notin EnabledOfType(agents, t)) =>
                  get_agent_by_type(agents, t) = agents[k]
            /\ (agents[k].enabled /\ \A j \in 1..(k - 1) : ~agents[j].enabled) =>
                  select_agent(agents, [task_id |-> TaskIdOf(1),
                                        preferred_agent |-> None]) = agents[k])
C35_Witness ==
  /\ last_call.op = "register_agent" /\ ~last_call.present
  /\ Len(agents) = MaxAgents
  /\ agents[MaxAgents].id = 1
  /\ agents[1].id = MaxAgents
  /\ agents[MaxAgents].enabled /\ \A k \in 1..(MaxAgents - 1) : ~agents[k].enabled

\* C36: the attempts of a task are counted for that task alone: a step of
\* one task never changes the attempt count of a sibling, and a task whose
\* invocations fail gives up before its timeout only after 3 attempts of
\* its own, however many attempts its siblings have made or failed.
C36_AttemptsPerTask ==
  /\ [](\A i \in Tasks :
          /\ attempt[i] = Len(outcomes[i])
          /\ attempt[i] <= MaxAttempts
          /\ (/\ Done(i) /\ agentOf[i] # NoAgent
              /\ response[i].status # "success"
              /\ response[i].execution_time < Timeout(i)) =>
                attempt[i] = MaxAttempts)
  /\ [][\A i, j \in Tasks :
          (i # j /\ attempt'[i] # attempt[i]) =>
            /\ attempt'[i] = attempt[i] + 1
            /\ attempt'[j] = attempt[j]
            /\ outcomes'[j] = outcomes[j]]_vars
C36_Witness ==
  /\ Len(requests) = 2
  /\ Done(1) /\ Done(2)
  /\ attempt[1] = MaxAttempts /\ attempt[2] = MaxAttempts
  /\ response[1].status = "failed" /\ response[2].status = "success"
  /\ finished = <<1, 2>>

\* C37: the query of a TaskRequest stays within 1..10000 characters in every
\* reachable state, validate_request's masking included.
C37_QueryLengthWithinBounds ==
  Len(query) \in QueryMinLength..QueryMaxLength
====
